---- MODULE Spec2Model ----
(***************************************************************************)
(* Model of WeatherLogger (src/main.py): the JSON record store, the        *)
(* two-hour deduplication check, the asynchronous batch ingestion          *)
(* fetch_and_log_weather and the read-only queries.                        *)
(*                                                                         *)
(* Time is counted in whole hours.  A stored 'utc_timestamp' string is     *)
(* modelled by an integer: n >= 0 is the ISO-8601 text of instant n, a     *)
(* negative number is a text datetime.fromisoformat rejects.  City names   *)
(* are tuples of one-character strings so that strip() and lower() are     *)
(* computed character by character.  Temperatures are hundredths of a      *)
(* degree.                                                                 *)
(***************************************************************************)
EXTENDS Integers, Sequences, FiniteSets, TLC

VARIABLES
    file,            \* the data file: [kind, data]
    clock,           \* datetime.now(timezone.utc), in hours
    pc,              \* where fetch_and_log_weather stands: idle, classified, gather
    cities,          \* argument of the running / last fetch_and_log_weather
    current_time,    \* its local current_time
    valid_cities,    \* its local valid_cities
    skipped_cities,  \* its local skipped_cities
    tasks,           \* its fetch tasks: [state, ended (how the request ended), result]
    idx,             \* position of its "for weather_data in results" loop
    logged_data,     \* its local logged_data
    ret,             \* value returned by the last finished operation
    call,            \* arguments of a direct call of _is_duplicate_entry
    file0,           \* history: the data file when the batch started
    prev_logged      \* history: [req, at] of requests logged by finished batches

vars == <<file, clock, pc, cities, current_time, valid_cities, skipped_cities,
          tasks, idx, logged_data, ret, call, file0, prev_logged>>

---------------------------------------------------------------------------
(* Bounds of the model *)

MaxTime == 2
MaxBatch == 3
MaxStored == 2
MaxScan == 2

(* Program constants *)

DedupHours == 2
DayHours == 24
KelvinOffset == 27315

---------------------------------------------------------------------------
(* Strings *)

Paris == <<"P", "a", "r", "i", "s">>
paris == <<"p", "a", "r", "i", "s">>
ParisPadded == <<" ", "p", "a", "r", "i", "s", " ">>
London == <<"L", "o", "n", "d", "o", "n">>
Bombay == <<"B", "o", "m", "b", "a", "y">>
Mumbai == <<"M", "u", "m", "b", "a", "i">>

IsSpace(c) == c = " "

LowerChar(c) ==
    CASE c = "P" -> "p"
      [] c = "L" -> "l"
      [] c = "B" -> "b"
      [] c = "M" -> "m"
      [] OTHER -> c

\* str.lower()
Lower(s) == [i \in 1..Len(s) |-> LowerChar(s[i])]

\* str.lstrip() and str.rstrip()
RECURSIVE LStrip(_)
LStrip(s) ==
    IF s # <<>> /\ IsSpace(Head(s)) THEN LStrip(Tail(s)) ELSE s

RECURSIVE RStrip(_)
RStrip(s) ==
    IF s # <<>> /\ IsSpace(s[Len(s)]) THEN RStrip(SubSeq(s, 1, Len(s) - 1)) ELSE s

\* str.strip(): drops the leading and the trailing whitespace
Strip(s) == RStrip(LStrip(s))

---------------------------------------------------------------------------
(* Values *)

None == [none |-> TRUE]

\* how a call ends: with an exception, or with a value
Raised == [raised |-> TRUE]
Value(v) == [value |-> v]

\* what json.load can find in the data file
FileKinds == {"absent", "empty", "corrupt", "ok"}

OkFile(data) == [kind |-> "ok", data |-> data]
BrokenFile(kind) == [kind |-> kind, data |-> <<>>]

\* datetime.fromisoformat(...) succeeds
IsoParses(ts) == ts >= 0

\* _kelvin_to_celsius, on hundredths
KelvinToCelsius(kelvin) == kelvin - KelvinOffset

---------------------------------------------------------------------------
(* The record store *)

\* the list json.load yields, or the empty list where the code falls back to it
Load(f) == IF f.kind = "ok" THEN f.data ELSE <<>>

\* _save_weather_data that writes the new entry alone
SaveOverwriting(f, weather_data) == OkFile(<<weather_data>>)

\* _save_weather_data: read the list (empty when unreadable), append, rewrite
SaveWeatherData(f, weather_data) == OkFile(Append(Load(f), weather_data))

\* the scan of _is_duplicate_entry from entry i on; an exception raised by
\* fromisoformat leaves the loop through the bare except and yields False
RECURSIVE DupScan(_, _, _, _)

\* DupScan with the comparison ">=" in place of ">"
RECURSIVE DupScanInclusive(_, _, _, _)
DupScanInclusive(data, i, city, two_hours_ago) ==
    IF i > Len(data) THEN FALSE
    ELSE IF Lower(data[i].city) = Lower(city)
         THEN IF ~IsoParses(data[i].utc_timestamp) THEN FALSE
              ELSE IF data[i].utc_timestamp >= two_hours_ago THEN TRUE
                   ELSE DupScanInclusive(data, i + 1, city, two_hours_ago)
         ELSE DupScanInclusive(data, i + 1, city, two_hours_ago)

DupScan(data, i, city, two_hours_ago) ==
    IF i > Len(data) THEN FALSE
    ELSE IF Lower(data[i].city) = Lower(city)
         THEN IF ~IsoParses(data[i].utc_timestamp) THEN FALSE
              ELSE IF data[i].utc_timestamp > two_hours_ago THEN TRUE
                   ELSE DupScan(data, i + 1, city, two_hours_ago)
         ELSE DupScan(data, i + 1, city, two_hours_ago)

\* _is_duplicate_entry
IsDuplicateEntry(f, city, now) ==
    IF f.kind # "ok" THEN FALSE
    ELSE DupScan(f.data, 1, city, now - DedupHours)

---------------------------------------------------------------------------
(* Queries *)

\* sorted(..., reverse=True) is stable: an entry goes after the entries
\* whose key is greater or equal
RECURSIVE InsertDesc(_, _)
InsertDesc(sorted, e) ==
    IF sorted = <<>> THEN <<e>>
    ELSE IF Head(sorted).utc_timestamp >= e.utc_timestamp
         THEN <<Head(sorted)>> \o InsertDesc(Tail(sorted), e)
         ELSE <<e>> \o sorted

RECURSIVE SortDesc(_)
SortDesc(data) ==
    IF data = <<>> THEN <<>>
    ELSE InsertDesc(SortDesc(SubSeq(data, 1, Len(data) - 1)), data[Len(data)])

\* get_all_logs
GetAllLogs(f) == IF f.kind # "ok" THEN <<>> ELSE SortDesc(f.data)

RECURSIVE SumTemps(_)
SumTemps(logs) ==
    IF logs = <<>> THEN 0 ELSE Head(logs).temperature + SumTemps(Tail(logs))

\* round(n / d, 2) on hundredths: nearest, ties to even
RoundDiv(n, d) ==
    LET q == n \div d
        r == n % d
    IN  IF 2 * r < d THEN q
        ELSE IF 2 * r > d THEN q + 1
        ELSE IF q % 2 = 0 THEN q ELSE q + 1

\* get_city_avg_temp: grouped by the stored city string as it is
GetCityAvgTemp(f) ==
    LET logs == GetAllLogs(f)
        names == {logs[i].city : i \in 1..Len(logs)}
    IN  [c \in names |->
            LET mine == SelectSeq(logs, LAMBDA l : l.city = c)
            IN  RoundDiv(SumTemps(mine), Len(mine))]

\* max(logs, key=temperature): the first entry of the greatest temperature
MaxByTemp(logs) ==
    logs[CHOOSE i \in 1..Len(logs) :
            /\ \A j \in 1..Len(logs) : logs[j].temperature <= logs[i].temperature
            /\ \A j \in 1..(i - 1) : logs[j].temperature < logs[i].temperature]

\* min(logs, key=temperature): the first entry of the least temperature
MinByTemp(logs) ==
    logs[CHOOSE i \in 1..Len(logs) :
            /\ \A j \in 1..Len(logs) : logs[j].temperature >= logs[i].temperature
            /\ \A j \in 1..(i - 1) : logs[j].temperature > logs[i].temperature]

\* get_hottest_coldest_cities without "if not logs": max() of an empty
\* list raises
HottestColdestUnguarded(f, last_24h, now) ==
    LET logs == GetAllLogs(f)
    IN  IF last_24h /\ \E i \in 1..Len(logs) : ~IsoParses(logs[i].utc_timestamp)
        THEN Raised
        ELSE LET kept == IF last_24h
                         THEN SelectSeq(logs, LAMBDA l : l.utc_timestamp > now - DayHours)
                         ELSE logs
             IN  IF kept = <<>> THEN Raised
                 ELSE Value(<<MaxByTemp(kept), MinByTemp(kept)>>)

\* get_hottest_coldest_cities; the list comprehension of the 24 hour filter
\* parses every timestamp outside any try
GetHottestColdest(f, last_24h, now) ==
    LET logs == GetAllLogs(f)
    IN  IF last_24h /\ \E i \in 1..Len(logs) : ~IsoParses(logs[i].utc_timestamp)
        THEN Raised
        ELSE LET kept == IF last_24h
                         THEN SelectSeq(logs, LAMBDA l : l.utc_timestamp > now - DayHours)
                         ELSE logs
             IN  IF kept = <<>> THEN Value(<<None, None>>)
                 ELSE Value(<<MaxByTemp(kept), MinByTemp(kept)>>)

---------------------------------------------------------------------------
(* The weather provider, as fetch_and_log_weather sees it *)

RequestNames == {Paris, ParisPadded, Bombay}

\* the 'name' the provider answers a query with: its own spelling of the
\* place, which for "Bombay" is "Mumbai"
ProviderName(city) ==
    IF Lower(city) = paris THEN Paris ELSE Mumbai

\* 'main.temp' of a payload, in hundredths of a kelvin
PayloadKelvin == {28815}

\* how one session.get may end
Outcomes(city) ==
    {[kind |-> "ok", name |-> ProviderName(city), temp |-> k] : k \in PayloadKelvin}
    \cup {[kind |-> k] : k \in {"http_error", "transport", "bad_payload"}}

\* the dict _fetch_weather_data builds ('description', 'humidity' and
\* 'local_timestamp' are carried along unread and left out)
WeatherData(name, kelvin, now) ==
    [city |-> name, temperature |-> KelvinToCelsius(kelvin), utc_timestamp |-> now]

\* _fetch_weather_data without its try: a transport error leaves the task
FetchUncaught(outcome, now) ==
    IF outcome.kind = "ok"
    THEN WeatherData(outcome.name, outcome.temp, now)
    ELSE IF outcome.kind = "transport" THEN Raised ELSE None

\* _fetch_weather_data: every failure is caught inside and yields None
FetchWeatherData(outcome, now) ==
    IF outcome.kind = "ok"
    THEN WeatherData(outcome.name, outcome.temp, now)
    ELSE None

---------------------------------------------------------------------------
(* fetch_and_log_weather *)

\* Partition without strip()
RECURSIVE PartitionNoStrip(_, _, _, _)
PartitionNoStrip(f, cs, i, now) ==
    IF i > Len(cs) THEN [valid |-> <<>>, skipped |-> <<>>]
    ELSE LET rest == PartitionNoStrip(f, cs, i + 1, now)
             city == cs[i]
         IN  IF ~IsDuplicateEntry(f, city, now)
             THEN [valid |-> <<city>> \o rest.valid, skipped |-> rest.skipped]
             ELSE [valid |-> rest.valid, skipped |-> <<city>> \o rest.skipped]

\* Partition that also skips a city the batch has named before
RECURSIVE PartitionOncePerBatch(_, _, _, _)
PartitionOncePerBatch(f, cs, i, now) ==
    IF i > Len(cs) THEN [valid |-> <<>>, skipped |-> <<>>]
    ELSE LET rest == PartitionOncePerBatch(f, cs, i + 1, now)
             city == Strip(cs[i])
             again == \E j \in 1..(i - 1) : Lower(Strip(cs[j])) = Lower(city)
         IN  IF ~IsDuplicateEntry(f, city, now) /\ ~again
             THEN [valid |-> <<city>> \o rest.valid, skipped |-> rest.skipped]
             ELSE [valid |-> rest.valid, skipped |-> <<city>> \o rest.skipped]

\* the partition loop over cities[i..]: each city is stripped, checked once
\* and put on valid_cities or on skipped_cities
RECURSIVE Partition(_, _, _, _)
Partition(f, cs, i, now) ==
    IF i > Len(cs) THEN [valid |-> <<>>, skipped |-> <<>>]
    ELSE LET rest == Partition(f, cs, i + 1, now)
             city == Strip(cs[i])
         IN  IF ~IsDuplicateEntry(f, city, now)
             THEN [valid |-> <<city>> \o rest.valid, skipped |-> rest.skipped]
             ELSE [valid |-> rest.valid, skipped |-> <<city>> \o rest.skipped]

Batches == UNION {[1..n -> RequestNames] : n \in 0..MaxBatch}

Returned(op, val) == [op |-> op, val |-> val]
NoReturn == Returned("none", Value(<<>>))
NoCall == [none |-> TRUE]

\* the locals of fetch_and_log_weather go with the call
LeaveBatch ==
    /\ pc' = "idle"
    /\ cities' = <<>>
    /\ current_time' = 0
    /\ valid_cities' = <<>>
    /\ skipped_cities' = <<>>
    /\ tasks' = <<>>
    /\ idx' = 1
    /\ logged_data' = <<>>
    /\ file0' = file'

\* from the call to the end of the partition loop
Classify(cs) ==
    /\ pc = "idle"
    /\ ret = NoReturn
    /\ cities' = cs
    /\ current_time' = clock
    /\ LET parts == Partition(file, cs, 1, clock)
       IN  /\ Len(Load(file)) + Len(parts.valid) <= MaxStored
           /\ valid_cities' = parts.valid
           /\ skipped_cities' = parts.skipped
    /\ pc' = "classified"
    /\ file0' = file
    /\ UNCHANGED <<file, clock, tasks, idx, logged_data, ret, call, prev_logged>>

\* "if not valid_cities: return []"
ReturnNothing ==
    /\ pc = "classified"
    /\ valid_cities = <<>>
    /\ ret' = Returned("fetch_and_log_weather", Value(<<>>))
    /\ UNCHANGED <<file, clock, call, prev_logged>>
    /\ LeaveBatch

\* the skipped cities are printed, one task per valid city is made, and
\* asyncio.gather is awaited; cities and skipped_cities are not read again
StartTasks ==
    /\ pc = "classified"
    /\ valid_cities # <<>>
    /\ pc' = "gather"
    /\ tasks' = [i \in 1..Len(valid_cities) |->
                    [state |-> "pending", ended |-> "", result |-> None]]
    /\ cities' = <<>>
    /\ skipped_cities' = <<>>
    /\ UNCHANGED <<file, clock, current_time, valid_cities,
                   idx, logged_data, ret, call, file0, prev_logged>>

\* one fetch task runs to its end
FetchDone(i) ==
    /\ pc = "gather"
    /\ i \in 1..Len(tasks)
    /\ tasks[i].state = "pending"
    /\ \E outcome \in Outcomes(valid_cities[i]) :
          tasks' = [tasks EXCEPT ![i] =
                       [state |-> "done", ended |-> outcome.kind,
                        result |-> FetchWeatherData(outcome, clock)]]
    /\ UNCHANGED <<file, clock, pc, cities, current_time, valid_cities,
                   skipped_cities, idx, logged_data, ret, call, file0, prev_logged>>

\* a wait that ends with the first task done
FirstDone == \E i \in 1..Len(tasks) : tasks[i].state = "done"

\* "await asyncio.gather(*tasks)" is over
AllDone == \A i \in 1..Len(tasks) : tasks[i].state = "done"

\* the save without the "if weather_data" before it
StoreAfterUnchecked(f, weather_data) == SaveWeatherData(f, weather_data)

\* "if weather_data: self._save_weather_data(weather_data)"
StoreAfter(f, weather_data) ==
    IF weather_data # None THEN SaveWeatherData(f, weather_data) ELSE f

\* "if weather_data: logged_data.append(weather_data)"
LoggedAfter(logged, weather_data) ==
    IF weather_data # None THEN Append(logged, weather_data) ELSE logged

\* asyncio.gather returns the results in task order once every task is
\* done, and an exception of a task would leave the call through it; then
\* one turn of "for weather_data in results"
LoopStep ==
    /\ pc = "gather"
    /\ AllDone
    /\ idx <= Len(tasks)
    /\ IF \E i \in 1..Len(tasks) : tasks[i].result = Raised
       THEN /\ ret' = Returned("fetch_and_log_weather", Raised)
            /\ UNCHANGED <<file, clock, call, prev_logged>>
            /\ LeaveBatch
       ELSE /\ file' = StoreAfter(file, tasks[idx].result)
            /\ logged_data' = LoggedAfter(logged_data, tasks[idx].result)
            /\ idx' = idx + 1
            /\ UNCHANGED <<clock, pc, cities, current_time, valid_cities,
                           skipped_cities, tasks, ret, call, file0, prev_logged>>

\* the requests of this batch that were logged, with the time of the call
LoggedRequests ==
    {[req |-> valid_cities[i], at |-> current_time] :
        i \in {j \in 1..Len(tasks) : tasks[j].result # None}}

\* "return logged_data"
ReturnLogged ==
    /\ pc = "gather"
    /\ AllDone
    /\ idx > Len(tasks)
    /\ ret' = Returned("fetch_and_log_weather", Value(logged_data))
    /\ prev_logged' = prev_logged \cup LoggedRequests
    /\ UNCHANGED <<file, clock, call>>
    /\ LeaveBatch

\* time passes while the program waits (for input, or for the fetches);
\* prev_logged keeps the requests logged less than the window ago
Tick ==
    /\ pc = "idle" \/ (pc = "gather" /\ ~AllDone)
    /\ clock < MaxTime
    /\ clock' = clock + 1
    /\ prev_logged' = {h \in prev_logged : clock' - h.at < DedupHours}
    /\ UNCHANGED <<file, pc, cities, current_time, valid_cities, skipped_cities,
                   tasks, idx, logged_data, ret, call, file0>>

---------------------------------------------------------------------------
(* The queries, called between batches *)

QueryFrame ==
    UNCHANGED <<file, clock, pc, cities, current_time, valid_cities, skipped_cities,
                tasks, idx, logged_data, call, file0, prev_logged>>

\* the menu loop takes the result and prompts again
BackToMenu ==
    /\ pc = "idle"
    /\ ret # NoReturn
    /\ ret' = NoReturn
    /\ QueryFrame

CallGetAllLogs ==
    /\ pc = "idle"
    /\ ret = NoReturn
    /\ ret' = Returned("get_all_logs", Value(GetAllLogs(file)))
    /\ QueryFrame

CallGetCityAvgTemp ==
    /\ pc = "idle"
    /\ ret = NoReturn
    /\ ret' = Returned("get_city_avg_temp", Value(GetCityAvgTemp(file)))
    /\ QueryFrame

CallGetHottestColdest(last_24h) ==
    /\ pc = "idle"
    /\ ret = NoReturn
    /\ ret' = Returned(IF last_24h THEN "get_hottest_coldest_24h"
                       ELSE "get_hottest_coldest",
                       GetHottestColdest(file, last_24h, clock))
    /\ QueryFrame

---------------------------------------------------------------------------
(* The program: a logger constructed over a fresh, an empty or a corrupt  *)
(* data file (_init_json_file leaves an existing file as it is)           *)

NoBatch ==
    /\ pc = "idle"
    /\ cities = <<>>
    /\ current_time = 0
    /\ valid_cities = <<>>
    /\ skipped_cities = <<>>
    /\ tasks = <<>>
    /\ idx = 1
    /\ logged_data = <<>>
    /\ ret = NoReturn
    /\ call = NoCall
    /\ prev_logged = {}

Init ==
    /\ file \in {OkFile(<<>>), BrokenFile("empty"), BrokenFile("corrupt")}
    /\ clock = 0
    /\ file0 = file
    /\ NoBatch

Next ==
    \/ \E cs \in Batches : Classify(cs)
    \/ ReturnNothing
    \/ StartTasks
    \/ \E i \in 1..MaxBatch : FetchDone(i)
    \/ LoopStep
    \/ ReturnLogged
    \/ Tick
    \/ BackToMenu
    \/ CallGetAllLogs
    \/ CallGetCityAvgTemp
    \/ \E b \in BOOLEAN : CallGetHottestColdest(b)

Spec == Init /\ [][Next]_vars

---------------------------------------------------------------------------
(* The two scans that parse stored timestamps, called directly on any data *)
(* file: _is_duplicate_entry(city, current_time), and the queries at a     *)
(* clock that puts the 24 hour cutoff at instant 0                         *)

StoredFiles(records) ==
    {OkFile(d) : d \in UNION {[1..n -> records] : n \in 0..MaxScan}}
    \cup {BrokenFile(k) : k \in FileKinds \ {"ok"}}

Stamps == (-1)..MaxTime

ScanRecords == [city : {Paris, paris, London}, temperature : {1500},
                utc_timestamp : Stamps]

CallIsDuplicateEntry ==
    /\ pc = "idle"
    /\ ret = NoReturn
    /\ call # NoCall
    /\ ret' = Returned("_is_duplicate_entry",
                       Value(IsDuplicateEntry(file, call.city, call.time)))
    /\ QueryFrame

InitScan ==
    /\ file \in StoredFiles(ScanRecords)
    /\ clock = DayHours
    /\ call \in [city : {Paris, paris, London}, time : 0..(MaxTime + 1)]
    /\ file0 = file
    /\ pc = "idle"
    /\ cities = <<>>
    /\ current_time = 0
    /\ valid_cities = <<>>
    /\ skipped_cities = <<>>
    /\ tasks = <<>>
    /\ idx = 1
    /\ logged_data = <<>>
    /\ ret = NoReturn
    /\ prev_logged = {}

NextScan ==
    \/ CallIsDuplicateEntry
    \/ \E b \in BOOLEAN : CallGetHottestColdest(b)
    \/ BackToMenu

SpecScan == InitScan /\ [][NextScan]_vars

---------------------------------------------------------------------------
(* The queries on any data file, at any clock around the 24 hour cutoff *)

QueryRecords == [city : {Paris, paris}, temperature : {1500, 3000},
                 utc_timestamp : Stamps]

InitQuery ==
    /\ file \in StoredFiles(QueryRecords)
    /\ clock \in {DayHours + k : k \in 0..MaxTime}
    /\ file0 = file
    /\ NoBatch

NextQuery ==
    \/ CallGetAllLogs
    \/ CallGetCityAvgTemp
    \/ \E b \in BOOLEAN : CallGetHottestColdest(b)
    \/ BackToMenu

SpecQuery == InitQuery /\ [][NextQuery]_vars

---------------------------------------------------------------------------
(* Properties *)

\* a stored entry is an observation for loc: equal up to letter case
SameLocation(entry, loc) == Lower(entry.city) = Lower(loc)

\* a stored entry carries an instant, and it lies in (t - window, t]
StampedIn(entry, t) ==
    /\ IsoParses(entry.utc_timestamp)
    /\ t - DedupHours < entry.utc_timestamp
    /\ entry.utc_timestamp <= t

\* a stored entry carries an instant, and it lies after t - window
StampedAfterCutoff(entry, t) ==
    /\ IsoParses(entry.utc_timestamp)
    /\ t - DedupHours < entry.utc_timestamp

DedupReturned == ret.op = "_is_duplicate_entry"

C6_ReadsTolerateNoStore ==
    /\ file = file0
    /\ Load(file) = <<>> =>
          /\ ret.op = "get_all_logs" => ret.val = Value(<<>>)
          /\ ret.op \in {"get_hottest_coldest", "get_hottest_coldest_24h"} =>
                ret.val = Value(<<None, None>>)
          /\ ret.op = "get_city_avg_temp" => DOMAIN ret.val.value = {}

\* C6: the 24 hour extremes were asked of an unparsable data file and
\* (None, None) came back
C6_Witness ==
    /\ file.kind = "corrupt"
    /\ ret.op = "get_hottest_coldest_24h"
    /\ ret.val = Value(<<None, None>>)

\* C7, as stated: an entry with an unparsable timestamp does not end a
\* scan.  In _is_duplicate_entry a valid entry for the location inside the
\* window still yields true whatever unparsable entries come before it; in
\* get_hottest_coldest_cities(last_24h=True) the unparsable entries are left
\* out, the others decide the result, and nothing is raised.
C7_Claim ==
    /\ DedupReturned =>
          ((\E i \in 1..Len(Load(file)) :
                /\ SameLocation(Load(file)[i], call.city)
                /\ StampedIn(Load(file)[i], call.time))
              => ret.val.value)
    /\ ret.op = "get_hottest_coldest_24h" =>
          /\ ret.val # Raised
          /\ ret.val = GetHottestColdest(
                 OkFile(SelectSeq(Load(file),
                                  LAMBDA e : IsoParses(e.utc_timestamp))),
                 TRUE, clock)

(* The batch, seen from outside *)

StripAll(cs) == [i \in 1..Len(cs) |-> Strip(cs[i])]

\* some stored observation for loc is stamped in (t - window, t]
RecentlyLogged(f, loc, t) ==
    \E i \in 1..Len(Load(f)) :
        SameLocation(Load(f)[i], loc) /\ StampedIn(Load(f)[i], t)

Pending == {i \in 1..Len(tasks) : tasks[i].state = "pending"}
Succeeded == {i \in 1..Len(tasks) : tasks[i].ended = "ok"}
Failed == {i \in 1..Len(tasks) : tasks[i].state = "done" /\ tasks[i].ended # "ok"}

\* the loop of the batch is over and the call is about to return
BatchDone == pc = "gather" /\ Pending = {} /\ idx > Len(tasks)

\* what the store holds beyond what it held when the batch started
Appended == SubSeq(Load(file), Len(Load(file0)) + 1, Len(Load(file)))

Elements(seq) == {seq[k] : k \in 1..Len(seq)}

\* the results of the successful fetches among tasks 1..n, in task order
RECURSIVE SuccessesTo(_)
SuccessesTo(n) ==
    IF n = 0 THEN <<>>
    ELSE IF n \in Succeeded THEN Append(SuccessesTo(n - 1), tasks[n].result)
         ELSE SuccessesTo(n - 1)

\* C1: in every call of fetch_and_log_weather the observations appended to
\* the store are as many as the successful fetches whose turn has come,
\* each of them the result of one; the store is otherwise as the call found
\* it, and nothing is appended before the loop or for a failed fetch.
C1_OneAppendPerSuccess ==
    /\ pc \in {"idle", "classified"} => file = file0
    /\ pc = "gather" =>
          /\ Load(file) = Load(file0) \o Appended
          /\ Len(Appended) = Cardinality({i \in Succeeded : i < idx})
          /\ Elements(Appended) = {tasks[i].result : i \in {j \in Succeeded : j < idx}}
          /\ Len(tasks) = Len(valid_cities)

\* C1: a batch of a failed and a successful fetch has ended with one
\* observation appended
C1_Witness ==
    /\ BatchDone
    /\ Cardinality(Failed) = 1
    /\ Cardinality(Succeeded) = 1
    /\ Len(Appended) = 1

\* C3: the partition of a batch is decided against the stored history at
\* the one current_time taken before any fetch: the stripped names with an
\* observation in the window are skipped, each occurrence of them, the
\* others are valid, and the tasks are those of the valid names alone.
C3_PartitionAtOneNow ==
    /\ pc = "classified" =>
          /\ current_time = clock
          /\ valid_cities = SelectSeq(StripAll(cities),
                 LAMBDA c : ~RecentlyLogged(file, c, current_time))
          /\ skipped_cities = SelectSeq(StripAll(cities),
                 LAMBDA c : RecentlyLogged(file, c, current_time))
    /\ pc = "gather" =>
          /\ Len(tasks) = Len(valid_cities)
          /\ \A i \in 1..Len(valid_cities) :
                ~RecentlyLogged(file0, valid_cities[i], current_time)

\* C3: Paris was logged an hour ago at most; of a batch naming Paris, Bombay
\* and " paris " only Bombay is valid and both spellings of Paris are skipped
C3_Witness ==
    /\ pc = "classified"
    /\ cities = <<Paris, Bombay, ParisPadded>>
    /\ clock >= 1
    /\ \E i \in 1..Len(Load(file)) : Load(file)[i].city = Paris
    /\ valid_cities = <<Bombay>>
    /\ skipped_cities = <<Paris, paris>>

\* C4: a fetch that ends in a transport error, a status other than 200 or
\* a malformed payload yields None; at the end of the batch it is neither
\* stored nor returned, every successful fetch of the batch is both, and the
\* call does not raise.
C4_FailureIsolated ==
    /\ ret.op = "fetch_and_log_weather" => ret.val # Raised
    /\ \A i \in Failed : tasks[i].result = None
    /\ BatchDone =>
          /\ \A i \in Succeeded :
                tasks[i].result \in Elements(Appended) \cap Elements(logged_data)
          /\ None \notin Elements(Appended) \cup Elements(logged_data)
          /\ Len(logged_data) = Cardinality(Succeeded)

\* C4: a batch has ended whose first fetch met a status other than 200
\* and whose second succeeded, is stored and is returned
C4_Witness ==
    /\ BatchDone
    /\ Len(tasks) = 2
    /\ tasks[1].ended = "http_error"
    /\ tasks[2].ended = "ok"
    /\ Appended = <<tasks[2].result>>
    /\ logged_data = <<tasks[2].result>>

IsPrefix(s, t) == Len(s) <= Len(t) /\ SubSeq(t, 1, Len(s)) = s

\* C5: the store is append-only: every step leaves the stored sequence a
\* prefix of the new one, and a step that changes the file leaves exactly
\* the old sequence followed by one observation.
C5_AppendOnly ==
    [][/\ IsPrefix(Load(file), Load(file'))
       /\ file' # file =>
             /\ file'.kind = "ok"
             /\ Len(Load(file')) = Len(Load(file)) + 1
             /\ Load(file')[Len(Load(file'))] = tasks[idx].result]_vars

\* C5: an observation has been appended to a store that held one before
C5_Witness ==
    /\ pc = "gather"
    /\ Len(Load(file0)) >= 1
    /\ Len(Appended) >= 1
    /\ IsPrefix(Load(file0), Load(file))

\* C8, as stated: a successful fetch is appended as soon as it completes, in
\* completion order: of two observations of one batch the one stamped
\* earlier (its fetch completed first) is stored first, and a completed
\* fetch is in the store by the time the clock has moved on, whether or
\* not other fetches are still pending.
C8_Original ==
    pc = "gather" =>
        /\ \A k \in 1..Len(Appended) : \A l \in 1..Len(Appended) :
              Appended[k].utc_timestamp < Appended[l].utc_timestamp => k < l
        /\ \A i \in Succeeded :
              tasks[i].result.utc_timestamp < clock
                  => tasks[i].result \in Elements(Appended)

\* C8, amended: nothing is appended while a fetch of the batch is pending;
\* once all have completed the successful ones are appended in task order,
\* the order of valid_cities, whatever the order of completion.
C8_AppendAfterGather ==
    /\ (pc = "gather" /\ Pending # {}) =>
          file = file0 /\ logged_data = <<>> /\ idx = 1
    /\ pc = "gather" => Appended = SuccessesTo(idx - 1)
    /\ BatchDone => logged_data = SuccessesTo(Len(tasks))

\* C8: a batch has ended whose second task completed before its first, and
\* the first task's observation is stored before the second's
C8_Witness ==
    /\ BatchDone
    /\ Len(tasks) = 2
    /\ Succeeded = {1, 2}
    /\ tasks[2].result.utc_timestamp < tasks[1].result.utc_timestamp
    /\ Appended = <<tasks[1].result, tasks[2].result>>

\* C9, as stated: if a call logged an observation for a requested name,
\* a call made less than two hours later that requests the same name skips
\* it, whatever name the provider answered with.
C9_Claim ==
    pc = "classified" =>
        \A h \in prev_logged :
            current_time - h.at < DedupHours =>
                \A i \in 1..Len(cities) :
                    Strip(cities[i]) = h.req =>
                        /\ h.req \in Elements(skipped_cities)
                        /\ h.req \notin Elements(valid_cities)

Occurrences(seq, loc) ==
    Cardinality({k \in 1..Len(seq) : Lower(seq[k]) = Lower(loc)})

\* C10: a name with no observation in the window that a batch requests k
\* times, in any letter case, is valid k times; one fetch is made for each,
\* and each that succeeds is appended.
C10_DuplicatesAllFetched ==
    /\ pc = "classified" =>
          \A i \in 1..Len(cities) :
              ~RecentlyLogged(file, Strip(cities[i]), current_time) =>
                  Occurrences(valid_cities, Strip(cities[i]))
                      = Occurrences(StripAll(cities), Strip(cities[i]))
    /\ pc = "gather" => Len(tasks) = Len(valid_cities)
    /\ BatchDone => Len(Appended) = Cardinality(Succeeded)

\* C10: one batch has requested "Paris" and "paris", fetched both, and
\* stored two observations for Paris less than the window apart
C10_Witness ==
    /\ BatchDone
    /\ valid_cities = <<Paris, paris>>
    /\ Len(Appended) = 2
    /\ Appended[1].city = Paris /\ Appended[2].city = Paris
    /\ Appended[2].utc_timestamp - Appended[1].utc_timestamp < DedupHours
    /\ Appended[1].utc_timestamp - Appended[2].utc_timestamp < DedupHours

====
